---- MODULE Spec2Model ----
(***************************************************************************)
(* The x402 server of atomic402 (src/unnamed/part_000): the Hono routes    *)
(* GET /content, GET /content/:id, POST /content/:id/execute and           *)
(* GET /receipts/:address as concurrent request handlers over one ledger.  *)
(*                                                                         *)
(* The SDK server object (createX402Server in packages/sdk/src/server.js:  *)
(* hasAccess, generateX402Response, sponsorAndExecute) is re-exported by   *)
(* src/packages/sdk/src/index.ts but its file is not part of the sources;  *)
(* it and the ledger are modelled from spec.md sections 3, 4 and 5.        *)
(* The sponsor key is taken as configured (SPONSOR_PRIVATE_KEY set).       *)
(***************************************************************************)
EXTENDS Integers, Sequences, FiniteSets, TLC

\* ----------------------------------------------------------------- bounds
\* GET requests and execute requests followed in Spec (all routes), and
\* execute requests followed in CoordSpec (the coordinator alone).
MaxRead == 1
MaxPay == 1
MaxExec == 2

ReadSlots == 1..MaxRead
PaySlots == 1..MaxPay
ExecSlots == 1..(IF MaxPay > MaxExec THEN MaxPay ELSE MaxExec)

\* ------------------------------------------------------ the content store
\* part_000:51-101: three sample contents, ids content_1..content_3.
ContentIds == {"content_1", "content_2", "content_3"}

Creator == "0x1234567890abcdef1234567890abcdef12345678"

contentStore ==
  [id \in ContentIds |->
     [id |-> id,
      price |-> CASE id = "content_1" -> "100000000"
                  [] id = "content_2" -> "200000000"
                  [] OTHER -> "500000000",
      creator |-> Creator,
      actualContent |-> CASE id = "content_1" -> "# Understanding x402 on Sui"
                          [] id = "content_2" -> "# PTB Mastery"
                          [] OTHER -> "# DeFi on Sui"]]

\* ------------------------------------------------------- request inputs
\* Content ids a fetch may name: a stored one and one that is not stored
\* (an account may hold a receipt for it, for content_2, or for neither).
RequestIds == {"content_1", "content_404"}
ExecUrlIds == {"content_1", "content_404"}
\* The ?address= query: absent, two account identifiers, one malformed string.
NoAddress == ""
Accounts == {"0xA", "0xB"}
BadAddress == "not-an-address"
QueryAddresses == {NoAddress, BadAddress} \cup Accounts
\* The :address of GET /receipts/:address.
ListedAddresses == {"0xA"}

\* The requester's transaction: opaque bytes to the server; on the ledger it
\* is `req` paying for `cid`; `valid` says the signature verifies and the
\* move call executes.
Tx(req, cid, valid) == [req |-> req, cid |-> cid, valid |-> valid]
Txs == {Tx("0xA", "content_1", TRUE), Tx("0xB", "content_2", TRUE),
        Tx("0xA", "content_1", FALSE)}
NoTx == [req |-> "", cid |-> "", valid |-> FALSE]

\* Bodies of POST /content/:id/execute: text that is no JSON, or an object
\* whose three fields are a value, "" or absent.
Absent == "<undefined>"
ObjectBody(tb, sig, pk) ==
  [kind |-> "object", transactionBytes |-> tb, signature |-> sig, publicKey |-> pk]
Unparseable == [kind |-> "unparseable", transactionBytes |-> Absent,
                signature |-> Absent, publicKey |-> Absent]
IncompleteBodies ==
  { ObjectBody("tx", "", "pk"), ObjectBody(Absent, Absent, Absent) }
CompleteBody == ObjectBody("tx", "sig", "pk")
Bodies == {Unparseable, CompleteBody} \cup IncompleteBodies

\* JavaScript truthiness of a body field (part_000:211).
Falsy(v) == v = "" \/ v = Absent

\* -------------------------------------------------------------- responses
NoChallenge == [contentId |-> "", price |-> "", recipient |-> "", target |-> ""]
NoPayload == ""
\* spec.md 3: the transaction identifier is the content-addressed hash of the
\* transaction, so equal identifiers mean equal transactions.
Digest(tx) == [hashOf |-> tx]
NoDigest == [hashOf |-> NoTx]

ReadResp(code, payload, challenge, data, error) ==
  [code |-> code, content |-> payload, challenge |-> challenge, data |-> data,
   error |-> error]
NoReadResp == ReadResp(0, NoPayload, NoChallenge, {}, "")

ExecResp(code, success, digest, status, error) ==
  [code |-> code, success |-> success, digest |-> digest, status |-> status,
   error |-> error]
NoExecResp == ExecResp(0, FALSE, NoDigest, "", "")

VARIABLES
  packageSet,   \* PACKAGE_ID !== "DEPLOY_AND_UPDATE_THIS" (part_000:21)
  rd,           \* the GET requests, one record per slot
  ex,           \* the POST /content/:id/execute requests, one record per slot
  queue,        \* coordinator: sponsorAndExecute calls waiting, in arrival order
  lock,         \* coordinator: the call inside the critical section, 0 if none
  gasVersion,   \* ledger: current version of the sponsor's fee object
  receipts,     \* ledger: AccessReceipt objects as <<owner, content id>>
  arrivals,     \* history: exec slots in the order sponsorAndExecute was called
  started       \* history: exec slots in the order their submission started

vars == <<packageSet, rd, ex, queue, lock, gasVersion, receipts, arrivals, started>>

\* ------------------------------------------------- the SDK and the ledger
\* spec.md 4.1: true iff the address owns an AccessReceipt for the content.
HasAccess(addr, id) == <<addr, id>> \in receipts

\* spec.md 4.2: a syntactically valid ledger account identifier.
ValidAddress(addr) == addr \in Accounts

\* spec.md 4.2: the fixed, configuration-bound entry point of the purchase.
CallTarget == "content_access::purchase_access"

\* spec.md 4.2: InvalidRequest for an address that is no account identifier,
\* else the challenge, its price and recipient taken from the record given.
generateX402Response(meta, addr) ==
  IF ValidAddress(addr)
  THEN [ok |-> TRUE,
        challenge |-> [contentId |-> meta.id, price |-> meta.price,
                       recipient |-> meta.creator, target |-> CallTarget]]
  ELSE [ok |-> FALSE, challenge |-> NoChallenge]

\* ------------------------------------------------- GET /content/:id
NewRead == [pc |-> "idle", route |-> "", id |-> "", addr |-> "", held |-> FALSE,
            paid |-> FALSE, access |-> "none", calls |-> 0, resp |-> NoReadResp]

\* Slots are interchangeable: they are taken in index order.
ReadFree(s) == rd[s].pc = "idle" /\ (IF s = 1 THEN TRUE ELSE rd[s - 1].pc # "idle")

\* A handler that fills the metadata's price and creator the wrong way round.
ContentMetaSwapped(content) ==
  [id |-> content.id, price |-> content.creator, creator |-> content.price]

\* part_000:180-187: the metadata handed to generateX402Response.
ContentMeta(content) ==
  [id |-> content.id, price |-> content.price, creator |-> content.creator]

\* part_000:159-166: the body of the 200 answer.
ContentResponse(content) ==
  ReadResp(200, content.actualContent, NoChallenge, {}, "")

\* part_000:174-198: the 402 path, taken when access was not shown.
ChallengeStage(content, addr) ==
  IF addr = NoAddress
  THEN ReadResp(400, NoPayload, NoChallenge, {}, "User address required")
  ELSE LET r == generateX402Response(ContentMeta(content), addr)
       IN  IF r.ok
           THEN ReadResp(402, NoPayload, r.challenge, {}, "")
           ELSE ReadResp(500, NoPayload, NoChallenge, {},
                         "Failed to generate payment request")

\* part_000:154: the access check is made only with an address and a package.
ChecksAccess(addr) == addr # NoAddress /\ packageSet

\* Some execute request for this pair has already been answered success.
PaidFor(addr, id) ==
  \E e \in ExecSlots : ex[e].resp.success /\ ex[e].tx.req = addr /\ ex[e].tx.cid = id

\* part_000:144-156: the request arrives; up to the await of hasAccess.
FetchArrive(s, id, addr) ==
  /\ ReadFree(s)
  /\ LET base == [NewRead EXCEPT !.route = "content", !.id = id, !.addr = addr,
                                 !.held = HasAccess(addr, id),
                                 !.paid = PaidFor(addr, id)]
     IN  rd' = [rd EXCEPT ![s] =
           IF id \notin DOMAIN contentStore
           THEN [base EXCEPT !.pc = "done",
                   !.resp = ReadResp(404, NoPayload, NoChallenge, {}, "Content not found")]
           ELSE IF ChecksAccess(addr)
           THEN [base EXCEPT !.pc = "hasAccess", !.calls = 1]
           ELSE [base EXCEPT !.pc = "done",
                   !.resp = ChallengeStage(contentStore[id], addr)]]
  /\ UNCHANGED <<packageSet, ex, queue, lock, gasVersion, receipts, arrivals, started>>

\* A handler that never serves the content.
AccessAnswerDenied(hasAccess, content, addr) == ChallengeStage(content, addr)

\* part_000:157-167 and 173-198: the answer once hasAccess has resolved.
AccessAnswer(hasAccess, content, addr) ==
  IF hasAccess THEN ContentResponse(content) ELSE ChallengeStage(content, addr)

\* A handler that fails open: a failed check is answered with the content.
AccessCheckFailedOpen(content, addr) == ContentResponse(content)

\* part_000:168-170 and 173-198: the answer once hasAccess has rejected: the
\* error is logged and the handler falls through to the 402 path.
AccessCheckFailed(content, addr) == ChallengeStage(content, addr)

\* part_000:156-167 and 173-198: hasAccess resolves.
HasAccessReturn(s) ==
  /\ rd[s].pc = "hasAccess"
  /\ LET hasAccess == HasAccess(rd[s].addr, rd[s].id)
     IN  rd' = [rd EXCEPT ![s] =
           [@ EXCEPT !.pc = "done",
                     !.access = IF hasAccess THEN "true" ELSE "false",
                     !.resp = AccessAnswer(hasAccess, contentStore[rd[s].id],
                                           rd[s].addr)]]
  /\ UNCHANGED <<packageSet, ex, queue, lock, gasVersion, receipts, arrivals, started>>

\* part_000:168-170 and 173-198: hasAccess rejects (the ledger query failed).
HasAccessThrow(s) ==
  /\ rd[s].pc = "hasAccess"
  /\ rd' = [rd EXCEPT ![s] =
        [@ EXCEPT !.pc = "done", !.access = "error",
                  !.resp = AccessCheckFailed(contentStore[rd[s].id], rd[s].addr)]]
  /\ UNCHANGED <<packageSet, ex, queue, lock, gasVersion, receipts, arrivals, started>>

\* ------------------------------------------------- GET /content
\* A listing that copies the whole stored record.
CatalogEntryWhole(content) == content

\* part_000:128-134: the fields of a stored content the listing shows (title
\* and description, which the store of this model leaves out, go with them).
CatalogEntry(content) ==
  [id |-> content.id, price |-> content.price, creator |-> content.creator]

\* part_000:127-137: the catalog listing; the handler has no await.
ListArrive(s) ==
  /\ ReadFree(s)
  /\ rd' = [rd EXCEPT ![s] =
        [NewRead EXCEPT !.pc = "done", !.route = "list",
           !.resp = ReadResp(200, NoPayload, NoChallenge,
                      {CatalogEntry(contentStore[id]) : id \in ContentIds}, "")]]
  /\ UNCHANGED <<packageSet, ex, queue, lock, gasVersion, receipts, arrivals, started>>

\* ------------------------------------------------- GET /receipts/:address
\* part_000:246-260: up to the await of getOwnedObjects.
ReceiptsArrive(s, address) ==
  /\ ReadFree(s)
  /\ LET base == [NewRead EXCEPT !.route = "receipts", !.addr = address]
     IN  rd' = [rd EXCEPT ![s] =
           IF ~packageSet
           THEN [base EXCEPT !.pc = "done",
                   !.resp = ReadResp(503, NoPayload, NoChallenge, {},
                                     "Package not deployed yet")]
           ELSE [base EXCEPT !.pc = "getOwnedObjects", !.calls = 1]]
  /\ UNCHANGED <<packageSet, ex, queue, lock, gasVersion, receipts, arrivals, started>>

\* part_000:262-277: the owned receipts, as the ledger lists them.
ReceiptsReturn(s) ==
  /\ rd[s].pc = "getOwnedObjects"
  /\ rd' = [rd EXCEPT ![s] =
        [@ EXCEPT !.pc = "done",
                  !.resp = ReadResp(200, NoPayload, NoChallenge,
                             {id \in ContentIds : <<rd[s].addr, id>> \in receipts}, "")]]
  /\ UNCHANGED <<packageSet, ex, queue, lock, gasVersion, receipts, arrivals, started>>

\* part_000:278-281: getOwnedObjects rejects.
ReceiptsThrow(s) ==
  /\ rd[s].pc = "getOwnedObjects"
  /\ rd' = [rd EXCEPT ![s] =
        [@ EXCEPT !.pc = "done",
                  !.resp = ReadResp(500, NoPayload, NoChallenge, {}, "query failed")]]
  /\ UNCHANGED <<packageSet, ex, queue, lock, gasVersion, receipts, arrivals, started>>

\* ------------------------------------------------- POST /content/:id/execute
NewExec == [pc |-> "idle", urlId |-> "", body |-> Unparseable, tx |-> NoTx,
            ver |-> 0, calls |-> 0, ledger |-> "none", cause |-> "",
            resp |-> NoExecResp]

ExecFree(e) == ex[e].pc = "idle" /\ (IF e = 1 THEN TRUE ELSE ex[e - 1].pc # "idle")

\* part_000:211: the three fields of the body must be truthy.
MissingFields(body) ==
  Falsy(body.transactionBytes) \/ Falsy(body.signature) \/ Falsy(body.publicKey)

\* A handler that reports success whatever the result's status.
ExecResponseAlwaysSuccess(result) ==
  ExecResp(200, TRUE, result.digest, result.status, "")

\* A handler that loses the result's digest.
ExecResponseNoDigest(result) ==
  ExecResp(200, result.status = "success", NoDigest, result.status, "")

\* part_000:222-229: the answer to a result of sponsorAndExecute.
ExecResponse(result) ==
  ExecResp(200, result.status = "success", result.digest, result.status, "")

\* part_000:230-239: the answer when the try block throws.
ExecFailure(message) == ExecResp(500, FALSE, NoDigest, "", message)

\* part_000:205-220: the request arrives; up to the await of sponsorAndExecute,
\* which (spec.md 4.3 step 2) queues the call in arrival order.
ExecArrive(e, urlId, body, tx) ==
  /\ ExecFree(e)
  /\ tx = NoTx <=> body # CompleteBody
  /\ tx.valid => packageSet      \* no package, no call that can execute
  /\ LET base == [NewExec EXCEPT !.urlId = urlId, !.body = body, !.tx = tx]
         calls == body.kind = "object" /\ ~MissingFields(body)
     IN  /\ ex' = [ex EXCEPT ![e] =
               IF body.kind = "unparseable"
               THEN [base EXCEPT !.pc = "done",
                       !.resp = ExecFailure("Unexpected token in JSON")]
               ELSE IF MissingFields(body)
               THEN [base EXCEPT !.pc = "done",
                       !.resp = ExecResp(400, FALSE, NoDigest, "", "Missing required fields")]
               ELSE [base EXCEPT !.pc = "queued"]]
         /\ queue' = IF calls THEN Append(queue, e) ELSE queue
         /\ arrivals' = IF calls THEN Append(arrivals, e) ELSE arrivals
  /\ UNCHANGED <<packageSet, rd, lock, gasVersion, receipts, started>>

\* A coordinator that admits any waiting call, not the oldest.
SponsorAdmitAnyWaiting(e) ==
  /\ \E i \in 1..Len(queue) :
       /\ queue[i] = e
       /\ queue' = SubSeq(queue, 1, i - 1) \o SubSeq(queue, i + 1, Len(queue))
  /\ lock = 0
  /\ lock' = e
  /\ started' = Append(started, e)
  /\ ex' = [ex EXCEPT ![e] =
        [@ EXCEPT !.pc = "awaiting", !.ver = gasVersion, !.calls = @ + 1,
                  !.ledger = "pending"]]
  /\ UNCHANGED <<packageSet, rd, gasVersion, receipts, arrivals>>

\* A coordinator that does not wait for the section to be free.
SponsorAdmitNoLock(e) ==
  /\ queue # <<>>
  /\ Head(queue) = e
  /\ lock' = e
  /\ queue' = Tail(queue)
  /\ started' = Append(started, e)
  /\ ex' = [ex EXCEPT ![e] =
        [@ EXCEPT !.pc = "awaiting", !.ver = gasVersion, !.calls = @ + 1,
                  !.ledger = "pending"]]
  /\ UNCHANGED <<packageSet, rd, gasVersion, receipts, arrivals>>

\* spec.md 4.3 steps 2-3: the oldest waiting call enters the critical section,
\* reads the fee object's version, co-signs and submits.
SponsorAdmit(e) ==
  /\ queue # <<>>
  /\ Head(queue) = e
  /\ lock = 0
  /\ lock' = e
  /\ queue' = Tail(queue)
  /\ started' = Append(started, e)
  /\ ex' = [ex EXCEPT ![e] =
        [@ EXCEPT !.pc = "awaiting", !.ver = gasVersion, !.calls = @ + 1,
                  !.ledger = "pending"]]
  /\ UNCHANGED <<packageSet, rd, gasVersion, receipts, arrivals>>

\* The ledger's verdict on a submitted transaction (spec.md 3, SponsorResource
\* and AccessReceipt): stale fee-object version: conflict; else it executes.
LedgerVerdict(e) ==
  IF ex[e].ver # gasVersion THEN "conflict"
  ELSE IF ex[e].tx.valid THEN "success"
  ELSE "abort"

\* The ledger applies a verdict: the fee object advances when the transaction
\* executed, and a success mints the requester's receipt in the same step.
LedgerApply(e, verdict) ==
  /\ gasVersion' = IF verdict = "conflict" THEN gasVersion ELSE gasVersion + 1
  /\ receipts' = IF verdict = "success"
                 THEN receipts \cup {<<ex[e].tx.req, ex[e].tx.cid>>}
                 ELSE receipts

\* spec.md 4.3 step 4: the terminal ledger outcome as a SponsoredExecutionResult.
Classify(e, verdict) ==
  [status |-> IF verdict = "success" THEN "success" ELSE "failure",
   digest |-> Digest(ex[e].tx),
   cause |-> IF verdict = "success" THEN "" ELSE verdict]

\* spec.md 4.3 steps 3-4 and part_000:222-229: finality is reported to the
\* waiting call, the section is released and the handler answers.
FinalityReported(e) ==
  /\ ex[e].pc = "awaiting"
  /\ LET verdict == LedgerVerdict(e)
         result == Classify(e, verdict)
     IN  /\ LedgerApply(e, verdict)
         /\ ex' = [ex EXCEPT ![e] =
               [@ EXCEPT !.pc = "done", !.ledger = verdict, !.cause = result.cause,
                         !.resp = ExecResponse(result)]]
  /\ lock' = IF lock = e THEN 0 ELSE lock
  /\ UNCHANGED <<packageSet, rd, queue, arrivals, started>>

\* A coordinator that keeps the section when the wait runs out.
SubmissionTimeoutKeepsLock(e) ==
  /\ ex[e].pc = "awaiting"
  /\ ex' = [ex EXCEPT ![e] =
        [@ EXCEPT !.pc = "done", !.cause = "timeout", !.resp = ExecFailure("timeout")]]
  /\ UNCHANGED <<packageSet, rd, queue, lock, gasVersion, receipts, arrivals, started>>

\* spec.md 4.3 step 6 and part_000:230-239: the bounded wait for finality runs
\* out: ExecutionFailed "timeout" is thrown and the section is released; the
\* transaction stays with the ledger.
SubmissionTimeout(e) ==
  /\ ex[e].pc = "awaiting"
  /\ ex' = [ex EXCEPT ![e] =
        [@ EXCEPT !.pc = "done", !.cause = "timeout", !.resp = ExecFailure("timeout")]]
  /\ lock' = IF lock = e THEN 0 ELSE lock
  /\ UNCHANGED <<packageSet, rd, queue, gasVersion, receipts, arrivals, started>>

\* spec.md 5: an abandoned transaction "may or may not have actually
\* finalized": the ledger may still decide it after the call has returned.
AbandonedFinalizes(e) ==
  /\ ex[e].pc = "done"
  /\ ex[e].ledger = "pending"
  /\ LET verdict == LedgerVerdict(e)
     IN  /\ LedgerApply(e, verdict)
         /\ ex' = [ex EXCEPT ![e] = [@ EXCEPT !.ledger = verdict]]
  /\ UNCHANGED <<packageSet, rd, queue, lock, arrivals, started>>

\* ------------------------------------------------------- the state machine
Init ==
  /\ packageSet \in BOOLEAN
  /\ rd = [s \in ReadSlots |-> NewRead]
  /\ ex = [e \in ExecSlots |-> NewExec]
  /\ queue = <<>>
  /\ lock = 0
  /\ gasVersion = 1
  /\ receipts = {}
  /\ arrivals = <<>>
  /\ started = <<>>

\* The execute route, for the slots in E.
ExecNext(E) ==
  \/ \E e \in E, urlId \in ExecUrlIds, body \in Bodies, tx \in Txs \cup {NoTx} :
       ExecArrive(e, urlId, body, tx)
  \/ \E e \in E : SponsorAdmit(e)
  \/ \E e \in E : FinalityReported(e)
  \/ \E e \in E : SubmissionTimeout(e)
  \/ \E e \in E : AbandonedFinalizes(e)

\* All routes.
Next ==
  \/ \E s \in ReadSlots, id \in RequestIds, addr \in QueryAddresses :
       FetchArrive(s, id, addr)
  \/ \E s \in ReadSlots : HasAccessReturn(s)
  \/ \E s \in ReadSlots : HasAccessThrow(s)
  \/ \E s \in ReadSlots : ListArrive(s)
  \/ \E s \in ReadSlots, address \in ListedAddresses :
       ReceiptsArrive(s, address)
  \/ \E s \in ReadSlots : ReceiptsReturn(s)
  \/ \E s \in ReadSlots : ReceiptsThrow(s)
  \/ ExecNext(PaySlots)

Spec == Init /\ [][Next]_vars

\* The coordinator alone: the GET handlers write none of the variables the
\* execute route reads, so leaving them out loses no behaviour of the
\* execute requests.
CoordNext == ExecNext(ExecSlots)

CoordSpec == Init /\ [][CoordNext]_vars

\* The coordinator's scheduling: the oldest waiting call enters a free
\* section, and a wait for finality is bounded: it ends with the ledger's
\* report or with the timeout.
CoordFair ==
  /\ CoordSpec
  /\ WF_vars(\E e \in ExecSlots : SponsorAdmit(e))
  /\ \A e \in ExecSlots : WF_vars(FinalityReported(e) \/ SubmissionTimeout(e))

\* ---------------------------------------------------------------- claims
InFlight(e) == ex[e].ledger = "pending"
Abandoned(e) == ex[e].cause = "timeout"
FetchDone(s) == rd[s].pc = "done" /\ rd[s].route = "content"

C2_AsStated ==
  \A s \in ReadSlots :
    (FetchDone(s) /\ rd[s].access = "error")
      => /\ rd[s].resp.code = 402
         /\ rd[s].resp.challenge # NoChallenge
         /\ rd[s].resp.content = NoPayload

\* C2 as amended: a fetch whose access query failed never carries the gated
\* payload; it is answered with the challenge of the content when the address
\* is a valid account identifier, and with an error answer otherwise.
C2_FailClosed ==
  \A s \in ReadSlots :
    (FetchDone(s) /\ rd[s].access = "error")
      => /\ rd[s].resp.content = NoPayload
         /\ rd[s].resp.code \in {402, 500}
         /\ ValidAddress(rd[s].addr)
              => /\ rd[s].resp.code = 402
                 /\ rd[s].resp.challenge.contentId = rd[s].id
         /\ ~ValidAddress(rd[s].addr) => rd[s].resp.challenge = NoChallenge

\* The query failed for an account that holds the receipt: it is asked to pay.
C2_Witness ==
  \E s \in ReadSlots :
    /\ FetchDone(s) /\ rd[s].access = "error" /\ rd[s].held
    /\ rd[s].resp.code = 402

\* C3 as stated: with PACKAGE_ID unset, a fetch of stored content by an
\* account, a well-formed execute request and a receipt listing are answered
\* 503 and make no ledger call.
C3_AsStated ==
  ~packageSet =>
    /\ \A s \in ReadSlots :
         (rd[s].pc = "done" /\ (rd[s].route = "content" =>
                                  rd[s].id \in ContentIds /\ ValidAddress(rd[s].addr)))
           => (rd[s].resp.code = 503 /\ rd[s].calls = 0)
    /\ \A e \in ExecSlots :
         (ex[e].pc # "idle" /\ ex[e].body = CompleteBody)
           => (ex[e].pc = "done" /\ ex[e].resp.code = 503 /\ ex[e].calls = 0)

C5_AsStated ==
  \A s \in ReadSlots :
    (FetchDone(s) /\ rd[s].id \in ContentIds /\ rd[s].addr # NoAddress
       /\ <<rd[s].addr, rd[s].id>> \notin receipts)
      => /\ rd[s].access # "true"
         /\ rd[s].resp.code = 402
         /\ rd[s].resp.challenge.price = contentStore[rd[s].id].price
         /\ rd[s].resp.challenge.recipient = contentStore[rd[s].id].creator

\* C5 as amended: the same, for a requester address that is a syntactically
\* valid account identifier.
C5_ChallengeFromRecord ==
  \A s \in ReadSlots :
    (FetchDone(s) /\ rd[s].id \in ContentIds /\ ValidAddress(rd[s].addr)
       /\ <<rd[s].addr, rd[s].id>> \notin receipts)
      => /\ rd[s].access # "true"
         /\ rd[s].resp.code = 402
         /\ rd[s].resp.content = NoPayload
         /\ rd[s].resp.challenge.contentId = rd[s].id
         /\ rd[s].resp.challenge.price = contentStore[rd[s].id].price
         /\ rd[s].resp.challenge.recipient = contentStore[rd[s].id].creator

\* The access check returned false for an account and the challenge was sent.
C5_Witness ==
  \E s \in ReadSlots :
    /\ FetchDone(s) /\ rd[s].access = "false" /\ ValidAddress(rd[s].addr)
    /\ rd[s].resp.code = 402 /\ rd[s].resp.challenge.price = "100000000"

\* C6 as stated: an execute request with one of transaction bytes, signature
\* and public key missing or empty is answered 400 and reaches neither
\* sponsorAndExecute nor the ledger.
C6_AsStated ==
  \A e \in ExecSlots :
    (ex[e].pc # "idle" /\ MissingFields(ex[e].body))
      => /\ ex[e].pc = "done"
         /\ ex[e].resp.code = 400
         /\ ex[e].calls = 0
         /\ ex[e].ledger = "none"

\* C7: a submission whose wait for finality runs out is reported as a failure
\* with cause "timeout" and no longer holds the section, and every call that
\* waits for the section is eventually admitted.
C7_TimeoutReleases ==
  /\ [](\A e \in ExecSlots :
         Abandoned(e) => /\ ex[e].pc = "done"
                         /\ ex[e].resp.code = 500
                         /\ ex[e].resp.error = "timeout"
                         /\ ~ex[e].resp.success
                         /\ lock # e)
  /\ \A e \in ExecSlots : (ex[e].pc = "queued") ~> (ex[e].pc # "queued")

\* A submission timed out and a later call was admitted after it.
C7_Witness ==
  \E i, j \in 1..Len(started) : i < j /\ Abandoned(started[i])

ScenarioC(a, b) ==
  /\ a # b /\ ex[a].pc = "done" /\ ex[b].pc = "done"
  /\ ex[a].tx.valid /\ ex[b].tx.valid
  /\ ex[a].tx.req # ex[b].tx.req /\ ex[a].tx.cid # ex[b].tx.cid

BothSucceeded(a, b) ==
  /\ ex[a].resp.success /\ ex[b].resp.success
  /\ ex[a].resp.status = "success" /\ ex[b].resp.status = "success"
  /\ ex[a].resp.digest # NoDigest /\ ex[b].resp.digest # NoDigest
  /\ ex[a].resp.digest # ex[b].resp.digest
  /\ ex[a].ledger # "conflict" /\ ex[b].ledger # "conflict"

C11_AsStated ==
  /\ \A s \in ReadSlots :
       (rd[s].route = "content" /\ rd[s].id \notin ContentIds)
         => (rd[s].pc = "done" /\ rd[s].resp.code = 404 /\ rd[s].calls = 0)
  /\ \A e \in ExecSlots :
       (ex[e].pc # "idle" /\ ex[e].urlId \notin ContentIds
          /\ ex[e].body = CompleteBody)
         => /\ ex[e].pc = "done"
            /\ ex[e].resp.code = 404
            /\ ex[e].calls = 0
            /\ ex[e].ledger = "none"

\* C12 as stated: a fetch of stored content that reaches challenge generation
\* with no address, or with one that is no account identifier, is answered
\* 400 with no challenge, and not 500.
C12_AsStated ==
  \A s \in ReadSlots :
    (FetchDone(s) /\ rd[s].id \in ContentIds /\ ~ValidAddress(rd[s].addr))
      => /\ rd[s].resp.code = 400
         /\ rd[s].resp.challenge = NoChallenge

\* The gated payloads.
Payloads == {contentStore[id].actualContent : id \in ContentIds}

\* A GET answer carries a gated payload: as its content, or inside an entry
\* of a catalog listing.
CarriesPayload(s) ==
  \/ rd[s].resp.content \in Payloads
  \/ /\ rd[s].route = "list"
     /\ \E entry \in rd[s].resp.data : "actualContent" \in DOMAIN entry

\* C13: an answer carries a gated payload only when it is the 200 answer to a
\* fetch of that item in which the access check for the request's own
\* (address, content id) returned true; the listing, the challenge, the 404,
\* 400, 500 and 503 answers and the answers to execute requests carry none.
C13_PayloadOnlyAfterAccess ==
  /\ \A s \in ReadSlots :
       CarriesPayload(s)
         => /\ rd[s].route = "content"
            /\ rd[s].resp.code = 200
            /\ rd[s].access = "true"
            /\ <<rd[s].addr, rd[s].id>> \in receipts
            /\ rd[s].resp.content = contentStore[rd[s].id].actualContent
  /\ \A s \in ReadSlots :
       rd[s].resp.code # 200 => rd[s].resp.content = NoPayload
  /\ \A e \in ExecSlots :
       ex[e].resp.status \notin Payloads /\ ex[e].resp.error \notin Payloads

\* The catalog was listed: three entries, none with a payload.
C13_Witness ==
  \E s \in ReadSlots :
    /\ rd[s].pc = "done" /\ rd[s].route = "list"
    /\ Cardinality(rd[s].resp.data) = Cardinality(ContentIds)
    /\ ~CarriesPayload(s)

====
